---- MODULE Spec2Model ----
(***************************************************************************)
(* The sample scripts of frontier-agents-workshop as state machines.       *)
(*                                                                         *)
(*   Spec        the scripts from their first prompt on: the tool-call     *)
(*               loop of responses_with_ai_search.py ("search") and of     *)
(*               responses_with_ai_search_multi_turn.py ("multi"), the     *)
(*               search-then-answer of responses.py ("rag"), and the       *)
(*               interactive sessions of "multi",                          *)
(*               v1_azure_ai_with_azure_ai_search_multi_turn.py ("v1") and *)
(*               azure_ai_with_knowledge_base.py ("kb").                   *)
(*   FairSpec    Spec with weak fairness: a blocking call returns and the  *)
(*               interpreter runs the next statement.                      *)
(*   SpecEnv     the start of responses.py ("rag"), "search" and "multi"   *)
(*               under every environment, up to their first request.       *)
(*   SpecFormat  the two result formatters applied to document lists.      *)
(*                                                                         *)
(* Remote services (generation, search, agents) and the console are the    *)
(* environment: every outcome they can produce is a nondeterministic       *)
(* choice.                                                                 *)
(***************************************************************************)
EXTENDS Integers, Sequences, FiniteSets, TLC

(* ------------------------------ bounds -------------------------------- *)

\* Longest output list of one service response.
MaxItems == 2

\* The longest list of documents a formatter is given.
MaxDocs == 2

\* Size of the pool the service draws response ids from.  A client holds or
\* has used at most six ids when it receives a response: the
\* previous_response_id of the conversation and the responses of one
\* tool-call resolution that came before.
NumIds == 7

(* ------------------------- program constants -------------------------- *)

max_iterations == 5

\* Python's None, where an id is expected.
NoId == 0

SearchToolName == "search_knowledge_base"

(* --------------------------- console input ---------------------------- *)

Whitespace == {" "}

\* str.lower(), on the characters the console lines below use.
LowerChar(c) ==
    CASE c = "Q" -> "q"
      [] c = "E" -> "e"
      [] c = "U" -> "u"
      [] OTHER -> c

Lower(s) == [i \in 1..Len(s) |-> LowerChar(s[i])]

RECURSIVE LStrip(_)
LStrip(s) ==
    IF s # <<>> /\ Head(s) \in Whitespace THEN LStrip(Tail(s)) ELSE s

RECURSIVE RStrip(_)
RStrip(s) ==
    IF s # <<>> /\ s[Len(s)] \in Whitespace
    THEN RStrip(SubSeq(s, 1, Len(s) - 1))
    ELSE s

StripNothing(s) == s

\* str.strip()
Strip(s) == RStrip(LStrip(s))

ExitKeywords == { <<"q", "u", "i", "t">>, <<"e", "x", "i", "t">>, <<"q">> }

\* What the user can type at a prompt (before strip()).
ConsoleLines ==
    { <<>>,
      <<" ">>,
      <<"q">>,
      <<" ", "Q", "U", "i", "t", " ">>,
      <<"E", "x", "i", "t">>,
      <<"h", "i">> }

\* input() returns a line, or raises EOFError or KeyboardInterrupt.
ConsoleEvents ==
    [kind : {"line"}, text : ConsoleLines]
    \cup [kind : {"eof", "interrupt"}, text : {<<>>}]

\* Nothing has ended the script's reading of input.
NoEvent == [kind |-> "none", text |-> <<>>]

\* An exception raised by a turn left the read-loop.
FailedTurn == [kind |-> "failed_turn", text |-> <<>>]

(* ------------------------- service responses -------------------------- *)

\* The queries the model writes into a function call's arguments.  A query
\* is kept as the facts the scripts read from it: whether json.loads and
\* args["query"] succeed (parses), and what is_document_name looks at.
Queries ==
    { [id |-> "report_2024.pdf", nwords |-> 1, underscore |-> TRUE,
       stopword |-> FALSE, parses |-> TRUE],
      [id |-> "flood cover", nwords |-> 2, underscore |-> FALSE,
       stopword |-> FALSE, parses |-> TRUE] }

NoQuery ==
    [id |-> "", nwords |-> 0, underscore |-> FALSE, stopword |-> FALSE,
     parses |-> FALSE]

TextPart(t) == [has_text |-> TRUE, text |-> t]
OtherPart == [has_text |-> FALSE, text |-> <<>>]

FunctionCall(name, q) ==
    [type |-> "function_call", name |-> name, arguments |-> q,
     call_id |-> <<0, 0>>, has_content |-> FALSE, content |-> <<>>]

Message(parts) ==
    [type |-> "message", name |-> "", arguments |-> NoQuery,
     call_id |-> <<0, 0>>, has_content |-> TRUE, content |-> parts]

\* The output items a response is made of, before the service stamps the
\* call ids.
ItemShapes ==
    { FunctionCall(SearchToolName, q) : q \in Queries }
    \cup { FunctionCall("other_tool", NoQuery),
           FunctionCall(SearchToolName, NoQuery),
           Message(<<TextPart(<<"a">>), OtherPart, TextPart(<<"b">>)>>) }

OutputShapes == UNION { [1..n -> ItemShapes] : n \in 0..MaxItems }

\* The service gives every function call of a response its own call id.
Stamp(id, shape) ==
    [i \in 1..Len(shape) |->
        IF shape[i].type = "function_call"
        THEN [shape[i] EXCEPT !.call_id = <<id, i>>]
        ELSE shape[i]]

ServiceResponses(id) ==
    { [id |-> id, output |-> Stamp(id, shape)] : shape \in OutputShapes }

NoResponse == [id |-> NoId, output |-> <<>>]

(* ------------------------------- state -------------------------------- *)

VARIABLES
    script,                 \* which script this process runs
    pc,                     \* where the process is
    ended_by,               \* history: what ended the script's reading of
                            \* input: a console event or a failed turn
    inflight,               \* remote requests issued and not yet completed
    current_response,       \* the response the tool-call loop inspects
    iteration,              \* the loop variable of the tool-call loop
    pos,                    \* index of the output item being inspected
    tool_outputs,           \* function_call_output records of this iteration
    previous_response_id,   \* main's conversation id (multi)
    text_output,            \* the extracted final text
    error,                  \* the last exception raised
    last_received,          \* history: the response received last
    followups,              \* history: follow-up requests of this loop run
    searches_run,           \* history: search_documents calls of this pass
    none_sent,              \* history: a follow-up went out with "none"
    session,                \* history: the interactive read-loop: "none"
                            \* (not entered), "open" or "over"
    agent_exists,           \* service side: the created agent (version)
    delete_calls,           \* history: delete requests issued
    deleted_printed,        \* kb printed "Deleted agent version"
    environ,                \* os.environ
    reported,               \* the variables responses.py printed as missing
    last_input,             \* history: what the last input() produced
    opened,                 \* history: an earlier turn sent its opening
                            \* request (multi)
    answered,               \* history: the ids of the responses this loop
                            \* run has sent a follow-up request for
    unanswered,             \* history: searches run whose results no
                            \* follow-up request has carried yet
    documents,              \* the documents a formatter is given
    formatted               \* what the formatter returned

vars ==
    << script, pc, ended_by, inflight, current_response,
       iteration, pos, tool_outputs, previous_response_id, text_output,
       error, last_received, followups, searches_run, none_sent, session, agent_exists,
       delete_calls, deleted_printed, environ, reported, last_input,
       opened, answered, unanswered, documents, formatted >>

NoError == [type |-> "none", detail |-> "", caught |-> FALSE]

Exception(type, detail) == [type |-> type, detail |-> detail, caught |-> FALSE]

NoText == <<>>

(* ----------------------------- requests ------------------------------- *)

SYSTEM_PROMPT == "system"

CreateRequest(choice, prev, system, user, outputs) ==
    [api |-> "responses.create", tool_choice |-> choice,
     previous_response_id |-> prev, system |-> system, user |-> user,
     input |-> outputs]

SearchRequest(mode, text, top) ==
    [api |-> "search", mode |-> mode, search_text |-> text, top |-> top]

\* The ids this client holds or has used in the tool-call resolution under
\* way.
KnownIds == {previous_response_id, current_response.id} \cup answered

\* An id the service has not handed to this client before, as far as the
\* client can tell: none of the ids it holds or has used in this resolution.
FreshId ==
    CHOOSE i \in 1..NumIds :
        /\ i \notin KnownIds
        /\ \A j \in 1..(i - 1) : j \in KnownIds

(* --------------------------- pure helpers ----------------------------- *)

IsFunctionCall(item) == item.type = "function_call"

\* any(output.type == "function_call" for output in response.output)
HasToolCalls(response) ==
    \E i \in 1..Len(response.output) : IsFunctionCall(response.output[i])

\* is_document_name of search_documents
IsDocumentName(q) == q.nwords <= 2 /\ q.underscore /\ ~q.stopword

ShouldAllowToolsOffByOne(i) == i < max_iterations - 1

\* should_allow_tools = iteration < max_iterations - 2
ShouldAllowTools(i) == i < max_iterations - 2

ToolChoice(i) == IF ShouldAllowTools(i) THEN "auto" ELSE "none"

\* The text parts of one output item, in order.
RECURSIVE PartTexts(_)
PartTexts(parts) ==
    IF parts = <<>> THEN <<>>
    ELSE (IF Head(parts).has_text THEN <<Head(parts).text>> ELSE <<>>)
         \o PartTexts(Tail(parts))

RECURSIVE OutputTextsPrepending(_)
OutputTextsPrepending(output) ==
    IF output = <<>> THEN <<>>
    ELSE OutputTextsPrepending(Tail(output))
         \o (IF Head(output).has_content
             THEN [i \in 1..Len(PartTexts(Head(output).content)) |->
                      PartTexts(Head(output).content)
                          [Len(PartTexts(Head(output).content)) + 1 - i]]
             ELSE <<>>)

\* for output in current_response.output: ... for content in output.content:
\* the texts in the order the loops meet them.
RECURSIVE OutputTexts(_)
OutputTexts(output) ==
    IF output = <<>> THEN <<>>
    ELSE (IF Head(output).has_content THEN PartTexts(Head(output).content)
          ELSE <<>>)
         \o OutputTexts(Tail(output))

RECURSIVE Concat(_)
Concat(texts) ==
    IF texts = <<>> THEN <<>> ELSE Head(texts) \o Concat(Tail(texts))

(* --------------------- the scripts' shared pieces ---------------------- *)

Item == current_response.output[pos]

AtItem == pc = "inspect" /\ pos <= Len(current_response.output)

AtEndOfItems == pc = "inspect" /\ pos > Len(current_response.output)

\* What no step of a script past its start-up changes: which script it is,
\* its environment, what the start-up reported, and the variables of the
\* formatters.
fixed_vars == << script, environ, reported, documents, formatted >>

loop_vars == << current_response, iteration, pos, tool_outputs >>

hist_vars ==
    << last_received, followups, searches_run, none_sent, answered,
       unanswered >>

\* What only the statements around input() change.
prompt_vars == << last_input, opened >>

agent_vars == << agent_exists, delete_calls, deleted_printed >>

chat_vars == << session, agent_vars >>

\* An exception that no handler catches, whatever the script.
RaiseUncaught(e) ==
    /\ inflight' = <<>>
    /\ pc' = "crashed"
    /\ error' = e
    /\ UNCHANGED << fixed_vars, prompt_vars, chat_vars, loop_vars, ended_by,
                    previous_response_id, text_output, hist_vars >>

\* An exception leaves the statement that raised it.  The single-turn script
\* has no handler: the process ends with a traceback.  In the multi-turn
\* script every statement of a turn is inside main's try: the handler prints
\* the exception and the while loop goes on to the next input().
Raise(e) ==
    /\ inflight' = <<>>
    /\ IF script = "multi"
       THEN /\ pc' = "prompt"
            /\ error' = [e EXCEPT !.caught = TRUE]
            /\ current_response' = NoResponse
            /\ iteration' = 0
            /\ pos' = 1
            /\ tool_outputs' = <<>>
       ELSE /\ pc' = "crashed"
            /\ error' = e
            /\ UNCHANGED loop_vars
    /\ UNCHANGED << fixed_vars, prompt_vars, chat_vars, ended_by, previous_response_id,
                    text_output, hist_vars >>

\* What a formatter has not produced yet.
NoOutput == [kind |-> "none", entries |-> <<>>]

\* The environment variables the three Responses scripts read.
RequiredEnvVars ==
    << "AZURE_OPENAI_ENDPOINT", "AI_SEARCH_ENDPOINT", "AI_SEARCH_INDEX_NAME" >>

OptionalEnvVars == { "AI_SEARCH_SEMANTIC_CONFIG", "AI_SEARCH_VECTOR_FIELD" }

EnvVars ==
    { RequiredEnvVars[i] : i \in 1..Len(RequiredEnvVars) }
    \cup OptionalEnvVars

\* main() of the multi-turn script starts with previous_response_id = None
\* at its while loop; the single-turn script starts at its one input(); the
\* two agent scripts start before they create their agent.  Spec starts
\* where the environment is complete.
Started ==
    /\ session = IF script = "multi" THEN "open" ELSE "none"
    /\ agent_exists = FALSE
    /\ delete_calls = 0
    /\ deleted_printed = FALSE
    /\ ended_by = NoEvent
    /\ inflight = <<>>
    /\ current_response = NoResponse
    /\ iteration = 0
    /\ pos = 1
    /\ tool_outputs = <<>>
    /\ previous_response_id = NoId
    /\ text_output = NoText
    /\ error = NoError
    /\ last_received = NoResponse
    /\ followups = 0
    /\ searches_run = 0
    /\ none_sent = FALSE
    /\ answered = {}
    /\ unanswered = 0
    /\ last_input = NoEvent
    /\ opened = FALSE
    /\ reported = <<>>
    /\ formatted = NoOutput

Init ==
    /\ script \in {"search", "multi", "rag", "v1", "kb"}
    /\ pc = IF script \in {"search", "multi", "rag"} THEN "prompt"
            ELSE "start"
    /\ environ = [v \in EnvVars |-> "set"]
    /\ documents = <<>>
    /\ Started

\* What every input() that starts a turn leaves behind.
StartTurn ==
    /\ text_output' = NoText
    /\ last_received' = NoResponse
    /\ followups' = 0
    /\ searches_run' = 0
    /\ none_sent' = FALSE
    /\ answered' = {}
    /\ unanswered' = 0

(* ---------------- responses_with_ai_search.py: the prompt -------------- *)

\* user_query = input("You: ").strip(); empty: exit(0); else the opening
\* request with tool_choice="required".
SearchPrompt ==
    /\ script = "search"
    /\ pc = "prompt"
    /\ StartTurn
    /\ \E ev \in ConsoleEvents :
       /\ last_input' = ev
       /\ IF ev.kind = "eof"
          THEN /\ pc' = "crashed"
               /\ error' = Exception("EOFError", "")
               /\ inflight' = <<>>
               /\ ended_by' = ev
          ELSE IF ev.kind = "interrupt"
          THEN /\ pc' = "crashed"
               /\ error' = Exception("KeyboardInterrupt", "")
               /\ inflight' = <<>>
               /\ ended_by' = ev
          ELSE IF Strip(ev.text) = <<>>
          THEN /\ pc' = "exited"
               /\ error' = NoError
               /\ inflight' = <<>>
               /\ ended_by' = ev
          ELSE /\ pc' = "await_open"
               /\ error' = NoError
               /\ ended_by' = NoEvent
               /\ inflight' = << CreateRequest("required", NoId, TRUE,
                                               Strip(ev.text), <<>>) >>
    /\ UNCHANGED << fixed_vars, opened, chat_vars, loop_vars,
                    previous_response_id >>

(* ------------ responses_with_ai_search_multi_turn.py: main ------------- *)

\* if user_input.lower() in ['quit', 'exit', 'q', '']: break
MultiExitInputs == ExitKeywords \cup {<<>>}

IncludeSystemAlways == TRUE

\* if previous_response_id is None: input_messages.append(system message)
IncludeSystem == previous_response_id = NoId

\* One pass of main's while loop up to client.responses.create.
MultiPrompt ==
    /\ script = "multi"
    /\ pc = "prompt"
    /\ StartTurn
    /\ error' = NoError
    /\ \E ev \in ConsoleEvents :
       /\ last_input' = ev
       /\ IF ev.kind \in {"eof", "interrupt"}
          THEN /\ pc' = "ended"
               /\ inflight' = <<>>
               /\ ended_by' = ev
               /\ session' = "over"
               /\ UNCHANGED opened
          ELSE IF Lower(Strip(ev.text)) \in MultiExitInputs
          THEN /\ pc' = "ended"
               /\ inflight' = <<>>
               /\ ended_by' = ev
               /\ session' = "over"
               /\ UNCHANGED opened
          ELSE /\ pc' = "await_open"
               /\ ended_by' = NoEvent
               /\ session' = "open"
               /\ opened' = TRUE
               /\ inflight' = << CreateRequest("auto", previous_response_id,
                                               IncludeSystem,
                                               Strip(ev.text), <<>>) >>
    /\ UNCHANGED << fixed_vars, agent_vars, loop_vars,
                    previous_response_id >>

(* ---------------------- the opening response --------------------------- *)

\* The loop's first statements: max_iterations = 5, current_response =
\* response, and the first pass of "for iteration in range(max_iterations)".
EnterLoop(r) ==
    /\ current_response' = r
    /\ iteration' = 0
    /\ pos' = 1
    /\ tool_outputs' = <<>>

ReceiveOpening ==
    /\ pc = "await_open"
    /\ inflight # <<>>
    /\ inflight' = <<>>
    /\ \E r \in ServiceResponses(FreshId) :
        /\ last_received' = r
        /\ EnterLoop(r)
        /\ pc' = IF script = "multi" /\ ~HasToolCalls(r)
                 THEN "extract_direct" ELSE "inspect"
    /\ UNCHANGED << fixed_vars, prompt_vars, chat_vars, ended_by,
                    previous_response_id, text_output, error, followups,
                    searches_run, none_sent, answered, unanswered >>

FailOpening ==
    /\ pc = "await_open"
    /\ inflight # <<>>
    /\ Raise(Exception("APIError", "opening"))

(* ------------------------- the tool-call loop -------------------------- *)

\* An output item that is no function call: the inner for goes on.
SkipItem ==
    /\ AtItem
    /\ ~IsFunctionCall(Item)
    /\ pos' = pos + 1
    /\ UNCHANGED << fixed_vars, prompt_vars, chat_vars, pc, ended_by, inflight,
                    current_response, iteration, tool_outputs,
                    previous_response_id, text_output, error, hist_vars >>

\* A function call with another name: the single-turn script raises
\* ValueError; process_tool_calls has no else branch and goes on.
UnknownTool ==
    /\ AtItem
    /\ IsFunctionCall(Item)
    /\ Item.name # SearchToolName
    /\ IF script = "search"
       THEN Raise(Exception("ValueError", Item.name))
       ELSE /\ pos' = pos + 1
            /\ UNCHANGED << fixed_vars, prompt_vars, chat_vars, pc, ended_by, inflight,
                            current_response, iteration, tool_outputs,
                            previous_response_id, text_output, error,
                            hist_vars >>

\* args = json.loads(output.arguments); args["query"]: either may raise.
BadArguments ==
    /\ AtItem
    /\ IsFunctionCall(Item)
    /\ Item.name = SearchToolName
    /\ ~Item.arguments.parses
    /\ Raise(Exception("ArgumentError", "arguments"))

PrimaryRequest(q) ==
    IF IsDocumentName(q)
    THEN SearchRequest("listing", "*", 50)
    ELSE SearchRequest("hybrid", q.id, 5)

FallbackRequestRepeating(q) == PrimaryRequest(q)

\* except Exception: search_client.search(search_text=query, top=top,
\* select=[...])
FallbackRequest(q) == SearchRequest("simple", q.id, 5)

IssueSearchNoWait ==
    /\ AtItem
    /\ IsFunctionCall(Item)
    /\ Item.name = SearchToolName
    /\ Item.arguments.parses
    /\ inflight' = Append(inflight, PrimaryRequest(Item.arguments))
    /\ pos' = pos + 1
    /\ searches_run' = searches_run + 1
    /\ unanswered' = unanswered + 1
    /\ UNCHANGED << fixed_vars, prompt_vars, chat_vars, ended_by, pc,
                    current_response, iteration, tool_outputs,
                    previous_response_id, text_output, error, last_received,
                    followups, none_sent, answered >>

\* search_documents up to its first search_client.search call.
IssueSearch ==
    /\ AtItem
    /\ IsFunctionCall(Item)
    /\ Item.name = SearchToolName
    /\ Item.arguments.parses
    /\ inflight' = Append(inflight, PrimaryRequest(Item.arguments))
    /\ pc' = "search_primary"
    /\ searches_run' = searches_run + 1
    /\ unanswered' = unanswered + 1
    /\ UNCHANGED << fixed_vars, prompt_vars, chat_vars, ended_by, loop_vars,
                    previous_response_id, text_output, error, last_received,
                    followups, none_sent, answered >>

\* The rest of search_documents after a search call returned, and the
\* tool_outputs.append of the caller.
ToolOutput(item, request) ==
    [type |-> "function_call_output", call_id |-> item.call_id,
     output |-> [query |-> item.arguments.id, mode |-> request.mode]]

SearchReturnedMerging ==
    /\ inflight' = <<>>
    /\ tool_outputs' =
           IF \E k \in 1..Len(tool_outputs) :
                  tool_outputs[k].output.query = Item.arguments.id
           THEN tool_outputs
           ELSE Append(tool_outputs, ToolOutput(Item, Head(inflight)))
    /\ pos' = pos + 1
    /\ pc' = "inspect"
    /\ UNCHANGED << fixed_vars, prompt_vars, chat_vars, ended_by, current_response,
                    iteration, previous_response_id, text_output, error,
                    hist_vars >>

SearchReturned ==
    /\ inflight' = <<>>
    /\ tool_outputs' = Append(tool_outputs, ToolOutput(Item, Head(inflight)))
    /\ pos' = pos + 1
    /\ pc' = "inspect"
    /\ UNCHANGED << fixed_vars, prompt_vars, chat_vars, ended_by, current_response,
                    iteration, previous_response_id, text_output, error,
                    hist_vars >>

SearchPrimaryReturn ==
    /\ pc = "search_primary"
    /\ inflight # <<>>
    /\ SearchReturned

\* except Exception: print the warning and search again, plainly.
SearchPrimaryRaise ==
    /\ pc = "search_primary"
    /\ inflight # <<>>
    /\ inflight' = << FallbackRequest(Item.arguments) >>
    /\ pc' = "search_fallback"
    /\ UNCHANGED << fixed_vars, prompt_vars, chat_vars, ended_by, loop_vars,
                    previous_response_id, text_output, error, hist_vars >>

SearchFallbackReturn ==
    /\ pc = "search_fallback"
    /\ inflight # <<>>
    /\ SearchReturned

SearchFallbackRaise ==
    /\ pc = "search_fallback"
    /\ inflight # <<>>
    /\ Raise(Exception("SearchError", Item.arguments.id))

NoToolOutputsIsNone == FALSE

\* if not tool_outputs: break
NoToolOutputs == tool_outputs = <<>>

Break ==
    /\ AtEndOfItems
    /\ NoToolOutputs
    /\ pc' = "extract"
    /\ UNCHANGED << fixed_vars, prompt_vars, chat_vars, ended_by, inflight, loop_vars,
                    previous_response_id, text_output, error, hist_vars >>

\* A follow-up request that names the conversation's id, not the id of the
\* response it answers.
SendFollowUpToConversation ==
    /\ AtEndOfItems
    /\ ~NoToolOutputs
    /\ inflight' = Append(inflight,
                          CreateRequest(ToolChoice(iteration),
                                        previous_response_id, FALSE, <<>>,
                                        tool_outputs))
    /\ pc' = "await_followup"
    /\ followups' = followups + 1
    /\ none_sent' = (none_sent \/ ToolChoice(iteration) = "none")
    /\ answered' = answered \cup {previous_response_id}
    /\ unanswered' = unanswered - Len(tool_outputs)
    /\ UNCHANGED << fixed_vars, prompt_vars, chat_vars, ended_by, loop_vars,
                    previous_response_id, text_output, error,
                    last_received, searches_run >>

\* client.responses.create(previous_response_id=current_response.id,
\* input=tool_outputs, tool_choice=...)
SendFollowUp ==
    /\ AtEndOfItems
    /\ ~NoToolOutputs
    /\ inflight' = Append(inflight,
                          CreateRequest(ToolChoice(iteration),
                                        current_response.id, FALSE, <<>>,
                                        tool_outputs))
    /\ pc' = "await_followup"
    /\ followups' = followups + 1
    /\ none_sent' = (none_sent \/ ToolChoice(iteration) = "none")
    /\ answered' = answered \cup {current_response.id}
    /\ unanswered' = unanswered - Len(tool_outputs)
    /\ UNCHANGED << fixed_vars, prompt_vars, chat_vars, ended_by, loop_vars,
                    previous_response_id, text_output, error,
                    last_received, searches_run >>

HasNextIterationOneMore(i) == i + 1 <= max_iterations

\* for iteration in range(max_iterations): is there another pass?
HasNextIteration(i) == i + 1 < max_iterations

\* A loop that, when the for statement is exhausted, still runs the
\* searches the last response asks for.
ReceiveFollowUpRunningLast ==
    /\ pc = "await_followup"
    /\ inflight # <<>>
    /\ inflight' = <<>>
    /\ \E r \in ServiceResponses(FreshId) :
        /\ last_received' = r
        /\ current_response' = r
        /\ unanswered' =
             IF HasNextIteration(iteration) THEN unanswered
             ELSE unanswered
                  + Len(SelectSeq(r.output,
                                  LAMBDA item : /\ IsFunctionCall(item)
                                                /\ item.name = SearchToolName))
    /\ IF HasNextIteration(iteration)
       THEN /\ iteration' = iteration + 1
            /\ pos' = 1
            /\ tool_outputs' = <<>>
            /\ searches_run' = 0
            /\ pc' = "inspect"
       ELSE /\ pc' = "extract"
            /\ UNCHANGED << iteration, pos, tool_outputs, searches_run >>
    /\ UNCHANGED << fixed_vars, prompt_vars, chat_vars, ended_by,
                    previous_response_id, text_output, error, followups,
                    none_sent, answered >>

\* The follow-up's response becomes current_response and the for statement
\* either starts the next pass or is exhausted.
ReceiveFollowUp ==
    /\ pc = "await_followup"
    /\ inflight # <<>>
    /\ inflight' = <<>>
    /\ \E r \in ServiceResponses(FreshId) :
        /\ last_received' = r
        /\ current_response' = r
    /\ IF HasNextIteration(iteration)
       THEN /\ iteration' = iteration + 1
            /\ pos' = 1
            /\ tool_outputs' = <<>>
            /\ searches_run' = 0
            /\ pc' = "inspect"
       ELSE /\ pc' = "extract"
            /\ UNCHANGED << iteration, pos, tool_outputs, searches_run >>
    /\ UNCHANGED << fixed_vars, prompt_vars, chat_vars, ended_by,
                    previous_response_id, text_output, error, followups,
                    none_sent, answered, unanswered >>

FailFollowUp ==
    /\ pc = "await_followup"
    /\ inflight # <<>>
    /\ Raise(Exception("APIError", "follow-up"))

(* ------------------------ final text extraction ------------------------ *)

\* The response whose text is extracted after the loop.
FinalResponse == current_response

\* Single-turn: print(content.text) for every text part, then the script
\* ends.  text_output holds the printed texts, concatenated.
SearchExtract ==
    /\ script = "search"
    /\ pc = "extract"
    /\ text_output' = Concat(OutputTexts(FinalResponse.output))
    /\ pc' = "done"
    /\ UNCHANGED << fixed_vars, prompt_vars, chat_vars, ended_by, inflight, loop_vars,
                    previous_response_id, error, hist_vars >>

\* The end of a turn that forgets to store final_response.id.
MultiExtractNotStoring ==
    /\ script = "multi"
    /\ pc = "extract"
    /\ text_output' = Concat(OutputTexts(current_response.output))
    /\ current_response' = NoResponse
    /\ iteration' = 0
    /\ pos' = 1
    /\ tool_outputs' = <<>>
    /\ pc' = "prompt"
    /\ UNCHANGED << fixed_vars, prompt_vars, chat_vars, ended_by, inflight,
                    error, hist_vars, previous_response_id >>

\* Multi-turn: process_tool_calls returns (current_response, text_output);
\* main stores final_response.id, prints and loops.
MultiExtract ==
    /\ script = "multi"
    /\ pc = "extract"
    /\ text_output' = Concat(OutputTexts(FinalResponse.output))
    /\ previous_response_id' = FinalResponse.id
    /\ current_response' = NoResponse
    /\ iteration' = 0
    /\ pos' = 1
    /\ tool_outputs' = <<>>
    /\ pc' = "prompt"
    /\ UNCHANGED << fixed_vars, prompt_vars, chat_vars, ended_by, inflight, error,
                    hist_vars >>

\* Multi-turn, opening response without function calls: main extracts the
\* text itself and stores response.id.
MultiExtractDirect ==
    /\ script = "multi"
    /\ pc = "extract_direct"
    /\ text_output' = Concat(OutputTexts(current_response.output))
    /\ previous_response_id' = current_response.id
    /\ current_response' = NoResponse
    /\ iteration' = 0
    /\ pos' = 1
    /\ tool_outputs' = <<>>
    /\ pc' = "prompt"
    /\ UNCHANGED << fixed_vars, prompt_vars, chat_vars, ended_by, inflight, error,
                    hist_vars >>

(* ------- v1_azure_ai_with_azure_ai_search_multi_turn.py: main ---------- *)

AgentRequest(api) == [api |-> api]

\* agent.run_stream(user_input, ...), agent.run(user_input)
RunRequest(api, text) == [api |-> api, user |-> text]

turn_vars ==
    << loop_vars, previous_response_id, text_output, hist_vars >>

\* await agents_client.create_agent(...)
V1CreateAgent ==
    /\ script = "v1"
    /\ pc = "start"
    /\ inflight' = Append(inflight, AgentRequest("create_agent"))
    /\ pc' = "await_create"
    /\ UNCHANGED << fixed_vars, prompt_vars, chat_vars, ended_by, error, turn_vars >>

V1AgentCreated ==
    /\ script = "v1"
    /\ pc = "await_create"
    /\ inflight # <<>>
    /\ inflight' = <<>>
    /\ agent_exists' = TRUE
    /\ pc' = "construct_client"
    /\ UNCHANGED << fixed_vars, prompt_vars, session, delete_calls, deleted_printed, ended_by,
                    error, turn_vars >>

\* create_agent raised: nothing was created and no try block is open.
V1CreateFailed ==
    /\ script = "v1"
    /\ pc = "await_create"
    /\ inflight # <<>>
    /\ inflight' = <<>>
    /\ error' = Exception("ServiceError", "create_agent")
    /\ pc' = "crashed"
    /\ UNCHANGED << fixed_vars, prompt_vars, chat_vars, ended_by, turn_vars >>

\* chat_client = AzureAIAgentClient(...), the statement before "try:"; then
\* "async with ChatAgent(...) as agent" and the while loop.
V1ConstructClient ==
    /\ script = "v1"
    /\ pc = "construct_client"
    /\ \/ /\ pc' = "prompt"
          /\ session' = "open"
          /\ UNCHANGED error
       \/ /\ pc' = "crashed"
          /\ error' = Exception("ClientError", "chat_client")
          /\ UNCHANGED session
    /\ UNCHANGED << fixed_vars, prompt_vars, agent_vars, ended_by, inflight, turn_vars >>

\* if user_input.lower() in ['quit', 'exit', 'q', '']: break
V1ExitInputs == ExitKeywords \cup {<<>>}

\* One pass of the while loop up to agent.run_stream.  EOFError, an exit
\* keyword and the empty line break; KeyboardInterrupt is not caught.
V1Prompt ==
    /\ script = "v1"
    /\ pc = "prompt"
    /\ \E ev \in ConsoleEvents :
       /\ last_input' = ev
       /\ IF ev.kind = "interrupt"
          THEN /\ pc' = "finally"
               /\ error' = Exception("KeyboardInterrupt", "")
               /\ ended_by' = ev
               /\ session' = "over"
               /\ inflight' = <<>>
          ELSE IF \/ ev.kind = "eof"
                  \/ Lower(Strip(ev.text)) \in V1ExitInputs
          THEN /\ pc' = "finally"
               /\ error' = NoError
               /\ ended_by' = ev
               /\ session' = "over"
               /\ inflight' = <<>>
          ELSE /\ pc' = "await_run"
               /\ error' = NoError
               /\ ended_by' = NoEvent
               /\ session' = "open"
               /\ inflight' = Append(inflight,
                                     RunRequest("run_stream", Strip(ev.text)))
    /\ UNCHANGED << fixed_vars, opened, agent_vars, turn_vars >>

\* The stream is exhausted; citations are printed; the loop goes on.
V1RunDone ==
    /\ script = "v1"
    /\ pc = "await_run"
    /\ inflight # <<>>
    /\ inflight' = <<>>
    /\ pc' = "prompt"
    /\ UNCHANGED << fixed_vars, prompt_vars, chat_vars, ended_by, error, turn_vars >>

\* The stream raised: no handler inside the loop, so the exception leaves
\* the while loop and reaches the finally block.
V1RunFailed ==
    /\ script = "v1"
    /\ pc = "await_run"
    /\ inflight # <<>>
    /\ inflight' = <<>>
    /\ error' = Exception("ServiceError", "run")
    /\ session' = "over"
    /\ ended_by' = FailedTurn
    /\ pc' = "finally"
    /\ UNCHANGED << fixed_vars, prompt_vars, agent_vars, turn_vars >>

\* finally: await agents_client.delete_agent(azure_ai_agent.id)
V1Finally ==
    /\ script = "v1"
    /\ pc = "finally"
    /\ inflight' = Append(inflight, AgentRequest("delete_agent"))
    /\ delete_calls' = delete_calls + 1
    /\ pc' = "await_delete"
    /\ UNCHANGED << fixed_vars, prompt_vars, session, agent_exists, deleted_printed, ended_by,
                    error, turn_vars >>

\* After the finally block a pending exception goes on to end the process.
AfterFinally == IF error.type = "none" THEN "done" ELSE "crashed"

V1Deleted ==
    /\ script = "v1"
    /\ pc = "await_delete"
    /\ inflight # <<>>
    /\ inflight' = <<>>
    /\ agent_exists' = FALSE
    /\ pc' = AfterFinally
    /\ UNCHANGED << fixed_vars, prompt_vars, session, delete_calls, deleted_printed, ended_by,
                    error, turn_vars >>

V1DeleteFailed ==
    /\ script = "v1"
    /\ pc = "await_delete"
    /\ inflight # <<>>
    /\ inflight' = <<>>
    /\ error' = Exception("ServiceError", "delete_agent")
    /\ pc' = "crashed"
    /\ UNCHANGED << fixed_vars, prompt_vars, chat_vars, ended_by, turn_vars >>

(* ---------------- azure_ai_with_knowledge_base.py: main ---------------- *)

\* await project_client.agents.create_version(...)
KbCreateVersion ==
    /\ script = "kb"
    /\ pc = "start"
    /\ inflight' = Append(inflight, AgentRequest("create_version"))
    /\ pc' = "await_create"
    /\ UNCHANGED << fixed_vars, prompt_vars, chat_vars, ended_by, error, turn_vars >>

KbVersionCreated ==
    /\ script = "kb"
    /\ pc = "await_create"
    /\ inflight # <<>>
    /\ inflight' = <<>>
    /\ agent_exists' = TRUE
    /\ pc' = "construct_client"
    /\ UNCHANGED << fixed_vars, prompt_vars, session, delete_calls, deleted_printed, ended_by,
                    error, turn_vars >>

KbCreateFailed ==
    /\ script = "kb"
    /\ pc = "await_create"
    /\ inflight # <<>>
    /\ inflight' = <<>>
    /\ error' = Exception("ServiceError", "create_version")
    /\ pc' = "crashed"
    /\ UNCHANGED << fixed_vars, prompt_vars, chat_vars, ended_by, turn_vars >>

\* chat_client = AzureAIAgentClient(...), before "try:"; then "async with
\* chat_client.create_agent(...) as agent" and the while loop.
KbConstructClient ==
    /\ script = "kb"
    /\ pc = "construct_client"
    /\ \/ /\ pc' = "prompt"
          /\ session' = "open"
          /\ UNCHANGED error
       \/ /\ pc' = "crashed"
          /\ error' = Exception("ClientError", "chat_client")
          /\ UNCHANGED session
    /\ UNCHANGED << fixed_vars, prompt_vars, agent_vars, ended_by, inflight, turn_vars >>

KbExitInputsWithEmpty == ExitKeywords \cup {<<>>}

\* if user_input.lower() in ["quit", "exit", "q"]: break
KbExitInputs == ExitKeywords

\* One pass of the while loop up to agent.run.  input() is not inside a try:
\* EOFError and KeyboardInterrupt leave the loop as exceptions.  An exit
\* keyword breaks; the empty line continues.
KbPrompt ==
    /\ script = "kb"
    /\ pc = "prompt"
    /\ \E ev \in ConsoleEvents :
       /\ last_input' = ev
       /\ IF ev.kind \in {"eof", "interrupt"}
          THEN /\ pc' = "finally"
               /\ error' = Exception(IF ev.kind = "eof" THEN "EOFError"
                                     ELSE "KeyboardInterrupt", "")
               /\ ended_by' = ev
               /\ session' = "over"
               /\ inflight' = <<>>
          ELSE IF Lower(Strip(ev.text)) \in KbExitInputs
          THEN /\ pc' = "finally"
               /\ error' = NoError
               /\ ended_by' = ev
               /\ session' = "over"
               /\ inflight' = <<>>
          ELSE IF Strip(ev.text) = <<>>
          THEN /\ pc' = "prompt"
               /\ error' = NoError
               /\ ended_by' = NoEvent
               /\ session' = "open"
               /\ inflight' = <<>>
          ELSE /\ pc' = "await_run"
               /\ error' = NoError
               /\ ended_by' = NoEvent
               /\ session' = "open"
               /\ inflight' = Append(inflight,
                                     RunRequest("run", Strip(ev.text)))
    /\ UNCHANGED << fixed_vars, opened, agent_vars, turn_vars >>

KbRunDone ==
    /\ script = "kb"
    /\ pc = "await_run"
    /\ inflight # <<>>
    /\ inflight' = <<>>
    /\ pc' = "prompt"
    /\ UNCHANGED << fixed_vars, prompt_vars, chat_vars, ended_by, error, turn_vars >>

KbRunFailed ==
    /\ script = "kb"
    /\ pc = "await_run"
    /\ inflight # <<>>
    /\ inflight' = <<>>
    /\ error' = Exception("ServiceError", "run")
    /\ session' = "over"
    /\ ended_by' = FailedTurn
    /\ pc' = "finally"
    /\ UNCHANGED << fixed_vars, prompt_vars, agent_vars, turn_vars >>

\* The finally block as it would run with delete_version not commented out.
KbFinallyDeleting ==
    /\ script = "kb"
    /\ pc = "finally"
    /\ delete_calls' = delete_calls + 1
    /\ agent_exists' = FALSE
    /\ deleted_printed' = TRUE
    /\ pc' = AfterFinally
    /\ UNCHANGED << fixed_vars, prompt_vars, session, ended_by, inflight,
                    error, turn_vars >>

\* finally: the delete_version call is commented out; only the message is
\* printed.
KbFinally ==
    /\ script = "kb"
    /\ pc = "finally"
    /\ deleted_printed' = TRUE
    /\ pc' = AfterFinally
    /\ UNCHANGED << fixed_vars, prompt_vars, session, agent_exists, delete_calls, ended_by,
                    inflight, error, turn_vars >>

(* -------------------- start-up under an environment -------------------- *)

\* A variable is unset, set to the empty string, still holds the
\* placeholder of the sample .env ("https://your-..."), or holds a value.
EnvValues == {"absent", "empty", "placeholder", "set"}

Environments ==
    { e \in [EnvVars -> EnvValues] :
        \A v \in OptionalEnvVars : e[v] \in {"absent", "set"} }

\* os.getenv(var) is falsy: unset or the empty string.
Falsy(v) == environ[v] \in {"absent", "empty"}

\* responses.py, main: required_vars
required_vars == RequiredEnvVars

\* not os.getenv(var) or "your-" in os.getenv(var, "")
IsMissing(v) == Falsy(v) \/ environ[v] = "placeholder"

\* responses.py, main: the check of the required variables.  All the
\* missing ones are printed, and main returns.
RagMain ==
    /\ script = "rag"
    /\ pc = "setup"
    /\ LET missing == SelectSeq(required_vars, IsMissing)
       IN  IF missing # <<>>
           THEN /\ reported' = missing
                /\ pc' = "done"
           ELSE /\ reported' = <<>>
                /\ pc' = "prompt"
    /\ UNCHANGED << script, environ, documents, formatted, prompt_vars,
                    chat_vars, loop_vars, hist_vars, previous_response_id,
                    text_output, error, inflight, ended_by >>

\* The variables the module level of the two tool-calling scripts reads with
\* os.environ[...], in the order the statements run.
ModuleLevelReads == RequiredEnvVars

FirstAbsent(reads) ==
    LET absent == SelectSeq(reads, LAMBDA v : environ[v] = "absent")
    IN  IF absent = <<>> THEN <<>> ELSE << Head(absent) >>

\* responses_with_ai_search.py and its multi-turn twin, module level: the
\* clients are built from os.environ[...]; the first unset variable raises
\* KeyError, which nothing catches.
ModuleSetup ==
    /\ script \in {"search", "multi"}
    /\ pc = "setup"
    /\ LET absent == FirstAbsent(ModuleLevelReads)
       IN  IF absent # <<>>
           THEN /\ error' = Exception("KeyError", Head(absent))
                /\ pc' = "crashed"
           ELSE /\ error' = NoError
                /\ pc' = "prompt"
    /\ UNCHANGED << fixed_vars, prompt_vars, chat_vars, loop_vars, hist_vars,
                    previous_response_id, text_output, inflight, ended_by >>

\* responses.py, search_documents: the query type the two optional
\* variables select.
RagQueryType ==
    LET semantic == ~Falsy("AI_SEARCH_SEMANTIC_CONFIG")
        vector == ~Falsy("AI_SEARCH_VECTOR_FIELD")
    IN  IF semantic /\ vector THEN "vector_semantic_hybrid"
        ELSE IF semantic THEN "semantic"
        ELSE IF vector THEN "vector"
        ELSE "simple"

DefaultQuery == << "d", "e", "f", "a", "u", "l", "t" >>

top_k == 10

\* A main that leaves on an empty query, as responses_with_ai_search.py
\* does, instead of asking the default one.
RagPromptExiting ==
    /\ script = "rag"
    /\ pc = "prompt"
    /\ \E ev \in ConsoleEvents :
       /\ last_input' = ev
       /\ IF ev.kind = "eof"
          THEN /\ pc' = "crashed"
               /\ error' = Exception("EOFError", "")
               /\ inflight' = <<>>
               /\ ended_by' = ev
          ELSE IF ev.kind = "interrupt"
          THEN /\ pc' = "crashed"
               /\ error' = Exception("KeyboardInterrupt", "")
               /\ inflight' = <<>>
               /\ ended_by' = ev
          ELSE IF Strip(ev.text) = <<>>
          THEN /\ pc' = "exited"
               /\ error' = NoError
               /\ inflight' = <<>>
               /\ ended_by' = ev
          ELSE /\ pc' = "rag_search"
               /\ error' = NoError
               /\ ended_by' = NoEvent
               /\ inflight' =
                    << SearchRequest(RagQueryType, Strip(ev.text), top_k) >>
    /\ UNCHANGED << fixed_vars, opened, chat_vars, loop_vars, hist_vars,
                    previous_response_id, text_output >>

\* responses.py, main and ask_with_search up to the search request: input()
\* is outside the try; an empty query becomes the default one.
RagPrompt ==
    /\ script = "rag"
    /\ pc = "prompt"
    /\ \E ev \in ConsoleEvents :
       /\ last_input' = ev
       /\ IF ev.kind = "eof"
          THEN /\ pc' = "crashed"
               /\ error' = Exception("EOFError", "")
               /\ inflight' = <<>>
               /\ ended_by' = ev
          ELSE IF ev.kind = "interrupt"
          THEN /\ pc' = "crashed"
               /\ error' = Exception("KeyboardInterrupt", "")
               /\ inflight' = <<>>
               /\ ended_by' = ev
          ELSE LET query == IF Strip(ev.text) = <<>> THEN DefaultQuery
                            ELSE Strip(ev.text)
               IN  /\ pc' = "rag_search"
                   /\ error' = NoError
                   /\ ended_by' = NoEvent
                   /\ inflight' =
                        << SearchRequest(RagQueryType, query, top_k) >>
    /\ UNCHANGED << fixed_vars, opened, chat_vars, loop_vars, hist_vars,
                    previous_response_id, text_output >>

rag_vars ==
    << fixed_vars, prompt_vars, chat_vars, loop_vars, hist_vars,
       previous_response_id, ended_by >>

\* ask_with_search, after search_documents returned: the context is
\* formatted, the client is built and the generation request goes out with
\* the system message and the question.
RagSearchReturn ==
    /\ script = "rag"
    /\ pc = "rag_search"
    /\ inflight # <<>>
    /\ inflight' = << CreateRequest("unset", NoId, TRUE,
                                    Head(inflight).search_text, <<>>) >>
    /\ pc' = "rag_generate"
    /\ UNCHANGED << rag_vars, text_output, error >>

\* except Exception as e: print the error; raise
RagRaise(e) ==
    /\ inflight' = <<>>
    /\ error' = e
    /\ pc' = "crashed"
    /\ UNCHANGED << rag_vars, text_output >>

RagSearchRaise ==
    /\ script = "rag"
    /\ pc = "rag_search"
    /\ inflight # <<>>
    /\ RagRaise(Exception("SearchError", "search"))

\* return response.output_text; main prints the answer.
RagAnswer ==
    /\ script = "rag"
    /\ pc = "rag_generate"
    /\ inflight # <<>>
    /\ inflight' = <<>>
    /\ \E r \in ServiceResponses(FreshId) :
           text_output' = Concat(OutputTexts(r.output))
    /\ pc' = "done"
    /\ UNCHANGED << rag_vars, error >>

RagGenerateRaise ==
    /\ script = "rag"
    /\ pc = "rag_generate"
    /\ inflight # <<>>
    /\ RagRaise(Exception("APIError", "generation"))

\* The scripts under every environment, from the first statement to the
\* first request.
InitEnv ==
    /\ script \in {"rag", "search", "multi"}
    /\ pc = "setup"
    /\ environ \in Environments
    /\ documents = <<>>
    /\ Started

NextEnv ==
    \/ RagMain
    \/ ModuleSetup
    \/ RagPrompt
    \/ SearchPrompt
    \/ MultiPrompt

SpecEnv == InitEnv /\ [][NextEnv]_vars

(* ----------------------- the result formatters ------------------------- *)

\* A field of a search result: not in the document, null, or a string.
Absent == [kind |-> "absent", chars |-> <<>>]
Null == [kind |-> "null", chars |-> <<>>]
Str(chars) == [kind |-> "str", chars |-> chars]

Digits == << "0", "1", "2", "3", "4", "5", "6", "7", "8", "9" >>

\* A string of n characters, no two neighbours alike.
Chars(n) == [k \in 1..n |-> Digits[(k % 10) + 1]]

Fields == << "title", "name", "fileName", "content", "chunk", "text" >>

Doc(title, name, fileName, content, chunk, text) ==
    [title |-> title, name |-> name, fileName |-> fileName,
     content |-> content, chunk |-> chunk, text |-> text]

\* The documents a search may return: the index's usual title and chunk,
\* chunks and contents at and around the two cut lengths, and documents
\* whose usual fields are missing, null or empty.
Docs ==
    { Doc(Str(<<"T">>), Absent, Absent, Absent, Str(Chars(3)), Absent),
      Doc(Absent, Absent, Absent, Absent, Str(Chars(501)), Absent),
      Doc(Str(<<>>), Absent, Absent, Absent, Str(Chars(500)), Absent),
      Doc(Null, Str(<<"N">>), Absent, Absent, Absent, Absent),
      Doc(Str(<<"T">>), Absent, Absent, Str(Chars(2001)), Absent, Absent),
      Doc(Absent, Absent, Str(<<"F">>), Str(Chars(2000)), Absent, Absent),
      Doc(Absent, Absent, Absent, Absent, Null, Str(Chars(3))),
      Doc(Absent, Absent, Absent, Absent, Absent, Absent),
      Doc(Absent, Absent, Absent, Absent, Str(Chars(2001)), Absent) }

DocLists == UNION { [1..n -> Docs] : n \in 0..MaxDocs }

\* s[:n]
Prefix(s, n) == SubSeq(s, 1, IF Len(s) < n THEN Len(s) ELSE n)

\* s[-n:], which is not what the formatters take
Suffix(s, n) == SubSeq(s, IF Len(s) < n THEN 1 ELSE Len(s) - n + 1, Len(s))

\* search_documents: doc.get("chunk", "")[:500]
ChunkLimit == 500

\* format_search_results: if len(content) > 2000
ContentLimit == 2000

Ellipsis == << ".", ".", "." >>

\* doc.get(key, default)
Get(doc, key, default) ==
    IF doc[key].kind = "absent" THEN default ELSE doc[key]

\* bool(doc.get(key)): None and "" are falsy.
Truthy(value) == value.kind = "str" /\ value.chars # <<>>

\* a or b or c or d, over the values of a list of keys, d being the default
RECURSIVE FirstTruthy(_, _, _)
FirstTruthy(doc, keys, default) ==
    IF keys = <<>> THEN default
    ELSE IF Truthy(doc[Head(keys)]) THEN doc[Head(keys)].chars
    ELSE FirstTruthy(doc, Tail(keys), default)

\* f"Document {i}"
DocumentTitle(i) == << "Document", " ", Digits[i + 1] >>

\* str(doc): the braces around the keys the document has.
Repr(doc) ==
    << "{" >> \o SelectSeq(Fields, LAMBDA f : doc[f].kind # "absent")
    \o << "}" >>

\* search_documents, the body of its for loop: one entry of a document
\* whose chunk can be sliced.
SearchEntry(doc) ==
    [title |-> Get(doc, "title", Str(<< "N", "/", "A" >>)),
     content |-> Prefix(Get(doc, "chunk", Str(<<>>)).chars, ChunkLimit)]

\* A chunk that is null cannot be sliced: TypeError.
Unsliceable(doc) == Get(doc, "chunk", Str(<<>>)).kind = "null"

\* format_search_results: content[:2000] + "..." when longer than 2000
TruncateKeepingEnd(content) ==
    IF Len(content) > ContentLimit
    THEN Suffix(content, ContentLimit) \o Ellipsis
    ELSE content

Truncate(content) ==
    IF Len(content) > ContentLimit
    THEN Prefix(content, ContentLimit) \o Ellipsis
    ELSE content

\* format_search_results, the body of its for loop
ContextPart(i, doc) ==
    [number |-> i,
     title |-> FirstTruthy(doc, << "title", "name", "fileName" >>,
                           DocumentTitle(i)),
     content |-> Truncate(FirstTruthy(doc, << "content", "chunk", "text" >>,
                                      Repr(doc)))]

format_vars ==
    << environ, reported, prompt_vars, chat_vars, loop_vars, hist_vars,
       previous_response_id, text_output, inflight, ended_by >>

\* search_documents of the two tool-calling scripts, from "formatted = []"
\* to the return of json.dumps(formatted).
SearchDocumentsFormat ==
    /\ script \in {"search", "multi"}
    /\ pc = "format"
    /\ IF \E i \in 1..Len(documents) : Unsliceable(documents[i])
       THEN /\ pc' = "crashed"
            /\ error' = Exception("TypeError", "")
            /\ formatted' = NoOutput
       ELSE /\ pc' = "formatted"
            /\ error' = NoError
            /\ formatted' =
                 [kind |-> "json",
                  entries |-> [i \in 1..Len(documents) |->
                                 SearchEntry(documents[i])]]
    /\ UNCHANGED << script, documents, format_vars >>

\* format_search_results of responses.py
FormatSearchResults ==
    /\ script = "rag"
    /\ pc = "format"
    /\ pc' = "formatted"
    /\ formatted' =
         IF documents = <<>>
         THEN [kind |-> "No relevant documents found.", entries |-> <<>>]
         ELSE [kind |-> "context",
               entries |-> [i \in 1..Len(documents) |->
                              ContextPart(i, documents[i])]]
    /\ UNCHANGED << script, documents, error, format_vars >>

\* A formatter called with a list of documents.
InitFormat ==
    /\ script \in {"search", "multi", "rag"}
    /\ pc = "format"
    /\ environ = [v \in EnvVars |-> "set"]
    /\ Started
    /\ documents \in DocLists

NextFormat ==
    \/ SearchDocumentsFormat
    \/ FormatSearchResults

SpecFormat == InitFormat /\ [][NextFormat]_vars

(* --------------------------- specifications ---------------------------- *)

Next ==
    \/ SearchPrompt
    \/ MultiPrompt
    \/ ReceiveOpening
    \/ FailOpening
    \/ SkipItem
    \/ UnknownTool
    \/ BadArguments
    \/ IssueSearch
    \/ SearchPrimaryReturn
    \/ SearchPrimaryRaise
    \/ SearchFallbackReturn
    \/ SearchFallbackRaise
    \/ Break
    \/ SendFollowUp
    \/ ReceiveFollowUp
    \/ FailFollowUp
    \/ SearchExtract
    \/ MultiExtract
    \/ MultiExtractDirect
    \/ RagPrompt
    \/ RagSearchReturn
    \/ RagSearchRaise
    \/ RagAnswer
    \/ RagGenerateRaise
    \/ V1CreateAgent
    \/ V1AgentCreated
    \/ V1CreateFailed
    \/ V1ConstructClient
    \/ V1Prompt
    \/ V1RunDone
    \/ V1RunFailed
    \/ V1Finally
    \/ V1Deleted
    \/ V1DeleteFailed
    \/ KbCreateVersion
    \/ KbVersionCreated
    \/ KbCreateFailed
    \/ KbConstructClient
    \/ KbPrompt
    \/ KbRunDone
    \/ KbRunFailed
    \/ KbFinally

Spec == Init /\ [][Next]_vars

FairSpec == Spec /\ WF_vars(Next)

(* ------------------------------ claims --------------------------------- *)

LoopScripts == {"search", "multi"}

InLoop ==
    /\ script \in LoopScripts
    /\ pc \in {"inspect", "search_primary", "search_fallback",
               "await_followup"}

AtExtraction == script \in LoopScripts /\ pc = "extract"

IsSearchCall(item) == IsFunctionCall(item) /\ item.name = SearchToolName

IsUnknownCall(item) == IsFunctionCall(item) /\ item.name # SearchToolName

SearchCalls(response) == SelectSeq(response.output, IsSearchCall)

\* The texts of a response in reading order, by position rather than by the
\* scripts' nested loops.
RECURSIVE TextsUpTo(_, _)
TextsUpTo(output, n) ==
    IF n = 0 THEN <<>>
    ELSE TextsUpTo(output, n - 1)
         \o (IF output[n].has_content
             THEN Concat([k \in 1..Len(output[n].content) |->
                             IF output[n].content[k].has_text
                             THEN output[n].content[k].text ELSE <<>>])
             ELSE <<>>)

ResponseText(response) == TextsUpTo(response.output, Len(response.output))

\* C1, as stated: the loop sends at most 5 follow-up requests and is never
\* left except towards the final-text extraction, whatever the responses
\* contain.
RaisedOnResponse == error.type \in {"ValueError", "ArgumentError"}

StageLeft ==
    CASE pc = "inspect" -> 2
      [] pc = "search_primary" -> 1
      [] OTHER -> 0

ItemsLeft ==
    IF pc = "await_followup" THEN 0
    ELSE Len(current_response.output) + 1 - pos

LoopMeasure ==
    (max_iterations - iteration) * (3 * MaxItems + 3)
    + 3 * ItemsLeft + StageLeft

C2_NoCallsExit ==
    [][ (InLoop /\ ~HasToolCalls(current_response))
        => /\ inflight' = <<>>
           /\ searches_run' = 0
           /\ current_response' = current_response
           /\ iteration' = iteration
           /\ pc' \in {"inspect", "extract"}
           /\ (AtEndOfItems => pc' = "extract") ]_vars

C2_Witness ==
    /\ AtExtraction
    /\ ~HasToolCalls(current_response)
    /\ Len(current_response.output) > 0
    /\ followups > 0
    /\ iteration < max_iterations - 1

\* C3, as stated: the driver never goes past a function call whose name is
\* not search_knowledge_base (it raises an error naming the tool instead).
PassedUnknownCall ==
    /\ script \in LoopScripts
    /\ pc \in {"inspect", "search_primary", "search_fallback",
               "await_followup", "extract"}
    /\ \E i \in 1..Len(current_response.output) :
           i < pos /\ IsUnknownCall(current_response.output[i])

C3_AsStated == ~PassedUnknownCall

\* C4: the follow-up of pass i goes out with "auto" exactly when i < 3 and
\* with "none" in passes 3 and 4; after a "none" no "auto" follows.
C4_ToolChoiceSchedule ==
    pc = "await_followup" =>
        /\ (iteration < 3 => inflight[1].tool_choice = "auto")
        /\ (iteration \in {3, 4} => inflight[1].tool_choice = "none")
        /\ (inflight[1].tool_choice = "auto" => ~none_sent)

C4_Witness ==
    /\ pc = "await_followup"
    /\ iteration = 4
    /\ inflight[1].tool_choice = "none"

\* C5: a follow-up request carries one function_call_output per
\* search_knowledge_base call of the response it answers, with that call's
\* id, in the order received; equal calls are searched and answered each.
C5_OneOutputPerCall ==
    pc = "await_followup" =>
        LET calls == SearchCalls(current_response)
            sent == inflight[1].input
        IN  /\ Len(sent) = Len(calls)
            /\ searches_run = Len(calls)
            /\ \A k \in 1..Len(calls) :
                   /\ sent[k].type = "function_call_output"
                   /\ sent[k].call_id = calls[k].call_id
                   /\ sent[k].output.query = calls[k].arguments.id

C5_Witness ==
    /\ pc = "await_followup"
    /\ Len(SearchCalls(current_response)) = 2
    /\ SearchCalls(current_response)[1].arguments
           = SearchCalls(current_response)[2].arguments

\* C6: the extracted text is the text of the response received last: its
\* text parts, concatenated in order.
Extracted ==
    \/ script = "search" /\ pc = "done"
    \/ /\ script = "multi"
       /\ pc = "prompt"
       /\ error.type = "none"
       /\ last_received # NoResponse

C6_TextOfLastResponse == Extracted => text_output = ResponseText(last_received)

C6_Witness ==
    /\ Extracted
    /\ followups = max_iterations
    /\ HasToolCalls(last_received)
    /\ text_output = <<"a", "b">>

\* C9: at most one remote request is outstanding; the searches of a response
\* run one at a time in item order, and the follow-up request goes out only
\* when all of them have returned.
C9_OneRequestAtATime ==
    /\ Len(inflight) <= 1
    /\ (pc \in {"search_primary", "search_fallback"} =>
           /\ Len(inflight) = 1
           /\ inflight[1].api = "search"
           /\ IsSearchCall(Item)
           /\ Len(tool_outputs)
                  = Len(SearchCalls([current_response EXCEPT
                        !.output = SubSeq(current_response.output,
                                          1, pos - 1)])))
    /\ (pc = "await_followup" =>
           /\ Len(inflight) = 1
           /\ inflight[1].api = "responses.create"
           /\ pos = Len(current_response.output) + 1
           /\ Len(tool_outputs) = Len(SearchCalls(current_response)))
    /\ (InLoop =>
           \A k \in 1..Len(tool_outputs) :
               tool_outputs[k].call_id
                   = SearchCalls(current_response)[k].call_id)
    /\ (pc \in {"await_run", "await_create", "await_delete", "await_open"}
           => Len(inflight) = 1)

C9_Witness ==
    /\ pc = "search_primary"
    /\ pos = 2
    /\ Len(tool_outputs) = 1
    /\ Len(inflight) = 1

\* C10, as stated: an interactive session ends only on an exit keyword or an
\* interrupt.
EndedByKeyword ==
    ended_by.kind = "line" /\ Lower(Strip(ended_by.text)) \in ExitKeywords

EndedByEmptyLine == ended_by.kind = "line" /\ Strip(ended_by.text) = <<>>

EndedByFailedTurn == ended_by = FailedTurn

C10_AsStated ==
    session = "over" => (EndedByKeyword \/ ended_by.kind = "interrupt")

\* C10, amended: a session ends only on an exit keyword, an interrupt or
\* end-of-input; on an empty line in the multi-turn Responses script and the
\* v1 script (not in the knowledge-base script); on a failed turn in the v1
\* and knowledge-base scripts (not in the multi-turn Responses script).
C10_SessionEnds ==
    session = "over" =>
        \/ EndedByKeyword
        \/ ended_by.kind \in {"interrupt", "eof"}
        \/ script \in {"multi", "v1"} /\ EndedByEmptyLine
        \/ script \in {"v1", "kb"} /\ EndedByFailedTurn

C10_Witness == session = "over" /\ script = "v1" /\ EndedByFailedTurn

(* --------------------------- C7: formatting ---------------------------- *)

FormatterReturned == pc = "formatted"

\* The string a formatter cuts: the chunk in search_documents, the first
\* non-empty of content, chunk and text (else the document's str) in
\* format_search_results.
SourceContent(doc) ==
    IF script = "rag"
    THEN FirstTruthy(doc, << "content", "chunk", "text" >>, Repr(doc))
    ELSE IF doc.chunk.kind = "str" THEN doc.chunk.chars ELSE <<>>

\* c is the first characters of src, all of them up to the limit.
IsCutOf(c, src, limit) ==
    /\ Len(c) = (IF Len(src) < limit THEN Len(src) ELSE limit)
    /\ \A k \in 1..Len(c) : c[k] = src[k]

\* C7: a formatter returns one entry per document, in the order received,
\* the i-th entry made of the i-th document; search_documents keeps at most
\* the first 500 characters of the chunk; format_search_results numbers the
\* entries 1..n, leaves a content of at most 2000 characters as it is and
\* turns a longer one into its first 2000 characters followed by "...".
C7_EntriesCutInOrder ==
    FormatterReturned =>
        /\ Len(formatted.entries) = Len(documents)
        /\ \A i \in 1..Len(documents) :
             LET entry == formatted.entries[i]
                 src == SourceContent(documents[i])
             IN  IF script = "rag"
                 THEN /\ entry.number = i
                      /\ IF Len(src) <= 2000
                         THEN entry.content = src
                         ELSE /\ Len(entry.content) = 2003
                              /\ IsCutOf(SubSeq(entry.content, 1, 2000),
                                         src, 2000)
                              /\ SubSeq(entry.content, 2001, 2003)
                                   = << ".", ".", "." >>
                 ELSE /\ Len(entry.content) <= 500
                      /\ IsCutOf(entry.content, src, 500)

\* format_search_results returned two entries for two different documents,
\* the first too long and the second short enough to stay whole.
C7_Witness ==
    /\ FormatterReturned
    /\ script = "rag"
    /\ Len(documents) = 2
    /\ Len(SourceContent(documents[1])) > 2000
    /\ Len(SourceContent(documents[2])) = 2000
    /\ Len(formatted.entries[1].content) = 2003
    /\ formatted.entries[2].content = SourceContent(documents[2])

(* ---------------------- C8: missing variables -------------------------- *)

Range(seq) == { seq[i] : i \in 1..Len(seq) }

AbsentRequired == { v \in Range(RequiredEnvVars) : environ[v] = "absent" }

\* The variables the start-up named: the ones printed as missing, or the
\* key of the KeyError.
NamedAtStartup ==
    Range(reported)
    \cup (IF error.type = "KeyError" THEN {error.detail} ELSE {})

\* C8, as stated: when required variables are unset, start-up names every
\* one of them, names no variable that is usable, and ends the script
\* before any request is sent.
C8_AsStated ==
    (pc # "setup" /\ AbsentRequired # {}) =>
        /\ AbsentRequired \subseteq NamedAtStartup
        /\ \A v \in NamedAtStartup : environ[v] # "set"
        /\ pc \in {"done", "crashed"}
        /\ inflight = <<>>

(* ------------------------- C11: exit keywords -------------------------- *)

InteractiveScripts == {"multi", "v1", "kb"}

\* The console lines that are an exit keyword in some letter case, with or
\* without blanks around it.
KeywordLines ==
    { <<"q">>, <<" ", "Q", "U", "i", "t", " ">>, <<"E", "x", "i", "t">> }

TypedKeyword == last_input.kind = "line" /\ last_input.text \in KeywordLines

ConversationRequests == {"responses.create", "run", "run_stream"}

\* C11: in the three interactive scripts an exit keyword typed at the
\* prompt ends the session at that prompt: nothing is sent for it, and once
\* the session is over no prompt is shown and no conversation request is
\* sent any more.
C11_KeywordEndsSession ==
    /\ [][ (script \in InteractiveScripts /\ pc = "prompt" /\ TypedKeyword')
           => /\ session' = "over"
              /\ inflight' = <<>>
              /\ pc' # "prompt" ]_vars
    /\ [][ (script \in InteractiveScripts /\ session = "over")
           => /\ session' = "over"
              /\ pc' # "prompt"
              /\ \A k \in 1..Len(inflight') :
                     inflight'[k].api \notin ConversationRequests ]_vars

C11_Witness ==
    /\ script = "kb"
    /\ session = "over"
    /\ last_input.text = <<" ", "Q", "U", "i", "t", " ">>
    /\ pc = "done"

(* ------------------------ C12: fallback search ------------------------- *)

LastToolOutput == tool_outputs[Len(tool_outputs)]

ProcessEnded == pc \in {"done", "crashed", "exited", "ended"}

DeleteRequests == {"delete_agent", "delete_version"}

\* C13: the knowledge-base script never issues a delete request; when the
\* process has ended after its session, however the session ended, the
\* agent version still exists and "Deleted agent version" was printed.
C13_VersionNeverDeleted ==
    script = "kb" =>
        /\ delete_calls = 0
        /\ \A k \in 1..Len(inflight) : inflight[k].api \notin DeleteRequests
        /\ ((ProcessEnded /\ session = "over") =>
               (agent_exists /\ deleted_printed))

\* A failed turn ended the session and the process.
C13_Witness ==
    /\ script = "kb"
    /\ pc = "crashed"
    /\ ended_by = FailedTurn
    /\ agent_exists
    /\ deleted_printed

(* -------------------- C14: previous_response_id ------------------------ *)

\* C14: in the multi-turn script, after a turn that completed without an
\* exception previous_response_id is the id of the response received last
\* in that turn; nothing but the completion of such a turn changes it; and
\* the request that opens a turn carries it.
C14_ConversationId ==
    /\ []((script = "multi" /\ Extracted) =>
             previous_response_id = last_received.id)
    /\ []((script = "multi" /\ pc = "await_open") =>
             inflight[1].previous_response_id = previous_response_id)
    /\ [][ (script = "multi"
            /\ previous_response_id' # previous_response_id)
           => /\ pc \in {"extract", "extract_direct"}
              /\ pc' = "prompt"
              /\ error'.type = "none"
              /\ previous_response_id' = last_received.id ]_vars

\* A turn went through the whole tool-call loop and stored the id of the
\* loop's final response, replacing the id of an earlier turn.
C14_Witness ==
    /\ script = "multi"
    /\ Extracted
    /\ followups = max_iterations
    /\ previous_response_id = last_received.id
    /\ previous_response_id # 1

(* ----------------------- C15: a turn that raises ----------------------- *)

ResponsesScripts == {"search", "multi", "rag"}

\* Where a turn of the three Responses scripts waits for a service or reads
\* a response.
InTurn ==
    /\ script \in ResponsesScripts
    /\ pc \in {"await_open", "inspect", "search_primary", "search_fallback",
               "await_followup", "rag_search", "rag_generate"}

Raises == error' # error /\ error'.type # "none"

\* C15: an exception raised by a step of a turn is caught in the multi-turn
\* script, which keeps previous_response_id and prompts again, and ends the
\* process in the two single-turn scripts, no final answer having been
\* printed.  The multi-turn script never ends by an exception of a turn,
\* and an ended process takes no further step.
C15_ExceptionInTurn ==
    /\ [][ (InTurn /\ Raises) =>
             IF script = "multi"
             THEN /\ error'.caught
                  /\ pc' = "prompt"
                  /\ session' = "open"
                  /\ previous_response_id' = previous_response_id
                  /\ inflight' = <<>>
             ELSE /\ ~error'.caught
                  /\ pc' = "crashed"
                  /\ text_output' = NoText
                  /\ inflight' = <<>> ]_vars
    /\ [](script = "multi" => pc # "crashed")
    /\ []((script \in ResponsesScripts /\ pc = "crashed") =>
             (text_output = NoText /\ ~ENABLED Next))

\* A search of a later turn failed, was caught, and the id of the earlier
\* turn is still there at the next prompt.
C15_Witness ==
    /\ script = "multi"
    /\ pc = "prompt"
    /\ error.caught
    /\ error.type = "SearchError"
    /\ previous_response_id # NoId

(* ----------------------- C16: the system message ----------------------- *)

\* The step of the multi-turn script that sends a turn's opening request.
OpensTurn == script = "multi" /\ pc = "prompt" /\ pc' = "await_open"

C17_FollowUpChain ==
    /\ [](pc = "await_followup" =>
            /\ inflight[1].previous_response_id = last_received.id
            /\ last_received.id # NoId
            /\ \A k \in 1..Len(inflight[1].input) :
                   inflight[1].input[k].call_id[1] = last_received.id
            /\ Cardinality(answered) = followups)
    /\ [][ (pc = "inspect" /\ pc' = "await_followup") =>
             /\ inflight'[1].previous_response_id \notin answered
             /\ answered'
                  = answered \cup {inflight'[1].previous_response_id} ]_vars

\* The fifth follow-up request of a resolution is out: five responses, each
\* named once.
C17_Witness ==
    /\ pc = "await_followup"
    /\ followups = max_iterations
    /\ Cardinality(answered) = max_iterations

(* ---------------------- C18: the v1 agent's deletion -------------------- *)

\* create_agent succeeded: the agent exists or a delete was issued for it.
AgentWasCreated == agent_exists \/ delete_calls > 0

\* C18, as stated: a run of the v1 script in which create_agent succeeded
\* has issued exactly one delete_agent call when the process ends.
C18_AsStated ==
    (script = "v1" /\ ProcessEnded /\ AgentWasCreated) => delete_calls = 1

(* ------------------ C19: a service that honours "none" ----------------- *)

\* At the extraction: no response to a request sent with tool_choice "none"
\* held a function call.  Such requests are the fourth and fifth follow-up;
\* a fifth is sent only for a response to the fourth that held calls.
HonouredNone ==
    \/ ~none_sent
    \/ followups = 4 /\ ~HasToolCalls(last_received)

\* C19, as stated: with "none" honoured the loop sends at most 4 follow-up
\* requests, leaves through the break, and its final response holds no
\* function call.
C19_AsStated ==
    (AtExtraction /\ HonouredNone) =>
        /\ followups <= 4
        /\ tool_outputs = <<>>
        /\ ~HasToolCalls(current_response)

(* ------------------------- C20: the iteration cap ---------------------- *)

\* The for statement was exhausted: the loop was left with the outputs of
\* its last pass still in tool_outputs, not through the break.
CapReached == AtExtraction /\ tool_outputs # <<>>

\* C20: when the cap is reached five follow-ups have been sent, every search
\* that ran has had its result sent, and the response received last has been
\* named by no follow-up; from there no search is run and nothing is sent,
\* and the multi-turn script stores the id of that response.  Every
\* follow-up carries as many outputs as the response it answers has search
\* calls, so that searches run and calls answered are equal at every
\* extraction.
C20_LastCallsUnanswered ==
    /\ [](CapReached =>
            /\ followups = 5
            /\ current_response = last_received
            /\ current_response.id \notin answered
            /\ inflight = <<>>)
    /\ [](AtExtraction => unanswered = 0)
    /\ [](pc = "await_followup" =>
            /\ unanswered = 0
            /\ Len(inflight[1].input) = Len(SearchCalls(last_received)))
    /\ [][ CapReached =>
             /\ unanswered' = 0
             /\ inflight' = <<>>
             /\ answered' = answered
             /\ (script = "multi" =>
                    /\ pc' = "prompt"
                    /\ previous_response_id' = last_received.id)
             /\ (script = "search" => pc' = "done") ]_vars

\* The multi-turn script is back at its prompt after a capped resolution,
\* holding the id of a response whose two search calls nobody answered.
C20_Witness ==
    /\ script = "multi"
    /\ pc = "prompt"
    /\ followups = 5
    /\ error.type = "none"
    /\ Len(SearchCalls(last_received)) = 2
    /\ last_received.id \notin answered
    /\ previous_response_id = last_received.id

(* --------------------------- C21: empty query -------------------------- *)

\* The lines that are empty once stripped.
BlankLines == { <<>>, <<" ">> }

\* The step in which the script's input() returns a blank line.
ReadsBlank(s) ==
    /\ script = s
    /\ pc = "prompt"
    /\ last_input'.kind = "line"
    /\ last_input'.text \in BlankLines

\* The last line read was blank.
ReadBlank(s) ==
    /\ script = s
    /\ last_input.kind = "line"
    /\ last_input.text \in BlankLines

\* C21: on a blank query responses_with_ai_search.py leaves through exit(0)
\* with no request sent then or afterwards and no response ever received;
\* responses.py sends its search request for the default query instead, and
\* the generation request that follows the search's return asks the default
\* query too.
C21_EmptyQuery ==
    /\ [][ ReadsBlank("search") =>
             /\ pc' = "exited"
             /\ error' = NoError
             /\ inflight' = <<>> ]_vars
    /\ [](ReadBlank("search") =>
             /\ pc = "exited"
             /\ inflight = <<>>
             /\ last_received = NoResponse
             /\ followups = 0
             /\ unanswered = 0
             /\ ~ENABLED Next)
    /\ [][ ReadsBlank("rag") =>
             /\ pc' = "rag_search"
             /\ Len(inflight') = 1
             /\ inflight'[1].api = "search"
             /\ inflight'[1].search_text = DefaultQuery
             /\ inflight'[1].top = top_k ]_vars
    /\ [][ (ReadBlank("rag") /\ pc = "rag_search" /\ pc' # "crashed") =>
             /\ pc' = "rag_generate"
             /\ Len(inflight') = 1
             /\ inflight'[1].api = "responses.create"
             /\ inflight'[1].user = DefaultQuery ]_vars
    /\ [](ReadBlank("rag") => pc # "exited")

\* responses_with_ai_search.py has left through exit(0) on a line of blanks.
C21_Witness ==
    /\ script = "search"
    /\ pc = "exited"
    /\ last_input = [kind |-> "line", text |-> <<" ">>]
    /\ error = NoError
    /\ inflight = <<>>

====
